---- MODULE Spec2Model ----
(***************************************************************************)
(* Model of the Quantum ESPRESSO log parser                                *)
(* (src/tilde/parsers/QuantumESPRESSO/QuantumESPRESSO.py).                 *)
(*                                                                         *)
(* QuantumESPRESSO.__init__ reads all lines of the log and dispatches each *)
(* line once through an if/elif chain; some branches look ahead at the     *)
(* following lines.  QuantumESPRESSO.fingerprints is the format detector.  *)
(*                                                                         *)
(* A number is an exact                                                    *)
(* rational times powers of the two unit constants Bohr and Rydberg        *)
(* (ase.units), which are kept symbolic.  An optional value is <<>> (None) *)
(* or <<v>>.  An uncaught Python exception ends the scan in pc = "failed". *)
(***************************************************************************)
EXTENDS Integers, Sequences, FiniteSets, TLC

\* ------------------------------------------------------------------ bounds

\* Largest number of catalogue blocks concatenated into one log.
MaxBlocks == 3

\* Largest number of catalogue blocks concatenated into one log of SpecXC.
MaxXcLines == 3

\* Largest number of pieces concatenated into one detector sample.
MaxPieces == 3

\* ------------------------------------------------------------- optionals

None == <<>>

Some(v) == <<v>>

IsSome(o) == o /= <<>>

Val(o) == o[1]

\* --------------------------------------------------------------- strings

UpperChars == "ABCDEFGHIJKLMNOPQRSTUVWXYZ"

LowerChars == "abcdefghijklmnopqrstuvwxyz"

Digits == { "0","1","2","3","4","5","6","7","8","9" }

\* s[i] for a 1-based i: a one-character string ("" outside the string).
At(s, i) == IF i < 1 \/ i > Len(s) THEN "" ELSE SubSeq(s, i, i)

\* s[a:b] with 0-based Python bounds already clipped to 0..Len(s).
Slice(s, a, b) == IF b <= a THEN "" ELSE SubSeq(s, a + 1, b)

\* str.lower() on one character.
LowerChar(c) ==
    IF \E i \in 1..26 : At(UpperChars, i) = c
    THEN At(LowerChars, CHOOSE i \in 1..26 : At(UpperChars, i) = c)
    ELSE c

\* str.lower()
RECURSIVE Lower(_)
Lower(s) ==
    IF s = "" THEN "" ELSE LowerChar(At(s, 1)) \o Lower(Slice(s, 1, Len(s)))

\* str.strip(chars): drop leading and trailing characters that are in chars.
RECURSIVE LStrip(_, _)
LStrip(s, chars) ==
    IF s /= "" /\ At(s, 1) \in chars THEN LStrip(Slice(s, 1, Len(s)), chars) ELSE s

RECURSIVE RStrip(_, _)
RStrip(s, chars) ==
    IF s /= "" /\ At(s, Len(s)) \in chars
    THEN RStrip(Slice(s, 0, Len(s) - 1), chars)
    ELSE s

Strip(s, chars) == RStrip(LStrip(s, chars), chars)

\* str.startswith(sub)
StartsWith(s, sub) == Len(sub) <= Len(s) /\ Slice(s, 0, Len(sub)) = sub

\* str.find(sub): 0-based index of the first occurrence, or -1.
Occurs(s, sub, i) == i + Len(sub) <= Len(s) /\ Slice(s, i, i + Len(sub)) = sub

Find(s, sub) ==
    IF \E i \in 0..Len(s) : Occurs(s, sub, i)
    THEN CHOOSE i \in 0..Len(s) :
             Occurs(s, sub, i) /\ \A j \in 0..(i - 1) : ~Occurs(s, sub, j)
    ELSE -1

\* sub in s
Contains(s, sub) == Find(s, sub) /= -1

\* str.split(sep): empty fields are kept.
RECURSIVE SplitKeep(_, _)
SplitKeep(s, sep) ==
    LET k == Find(s, sep) IN
    IF k = -1 THEN << s >>
    ELSE << Slice(s, 0, k) >> \o SplitKeep(Slice(s, k + Len(sep), Len(s)), sep)

\* str.split(): split on runs of blanks, no empty fields.
SplitBlank(s) == SelectSeq(SplitKeep(s, " "), LAMBDA p : p /= "")

\* sep.join(parts)
RECURSIVE Join(_, _)
Join(parts, sep) ==
    IF parts = <<>> THEN ""
    ELSE IF Len(parts) = 1 THEN parts[1]
    ELSE parts[1] \o sep \o Join(Tail(parts), sep)

\* str.replace(sub, "")
Remove(s, sub) == Join(SplitKeep(s, sub), "")

\* --------------------------------------------------------------- numbers

RECURSIVE GCD(_, _)
GCD(a, b) == IF b = 0 THEN a ELSE GCD(b, a % b)

Abs(i) == IF i < 0 THEN -i ELSE i

\* The number (n/d) * Bohr^b * Rydberg^r in lowest terms; zero has one form.
Q(n, d, b, r) ==
    IF n = 0 THEN [n |-> 0, d |-> 1, b |-> 0, r |-> 0]
    ELSE LET s == IF d < 0 THEN -1 ELSE 1
             g == GCD(Abs(n), Abs(d))
         IN  [n |-> (s * n) \div g, d |-> (s * d) \div g, b |-> b, r |-> r]

\* float(token) of an integer token.
Num(i) == Q(i, 1, 0, 0)

\* ase.units.Bohr and ase.units.Rydberg, kept symbolic.
Bohr == Q(1, 1, 1, 0)

Rydberg == Q(1, 1, 0, 1)

QMul(x, y) == Q(x.n * y.n, x.d * y.d, x.b + y.b, x.r + y.r)

\* Sums only ever add terms of the same unit (or zero).
QAdd(x, y) ==
    IF x.n = 0 THEN y
    ELSE IF y.n = 0 THEN x
    ELSE Q(x.n * y.d + y.n * x.d, x.d * y.d, x.b, x.r)

QNeg(x) == Q(-x.n, x.d, x.b, x.r)

QSub(x, y) == QAdd(x, QNeg(y))

\* x / y for y /= 0.
QDiv(x, y) == Q(x.n * y.d, x.d * y.n, x.b - y.b, x.r - y.r)

IsZero(x) == x.n = 0

\* ------------------------------------------------------ vectors, matrices

\* numpy: array * scalar
VScale(v, q) == [j \in 1..Len(v) |-> QMul(v[j], q)]

MScale(m, q) == [i \in 1..Len(m) |-> VScale(m[i], q)]

\* A row of integer tokens converted by float().
NumRow(v) == [j \in 1..Len(v) |-> Num(v[j])]

Dot3(a, b) == QAdd(QAdd(QMul(a[1], b[1]), QMul(a[2], b[2])), QMul(a[3], b[3]))

Col(m, j) == << m[1][j], m[2][j], m[3][j] >>

\* numpy.dot(p, m) for an N x 3 array p and a 3 x 3 array m.
MatMul(p, m) == [i \in 1..Len(p) |-> [j \in 1..3 |-> Dot3(p[i], Col(m, j))]]

Det3(m) ==
    QAdd(QSub(QMul(m[1][1], QSub(QMul(m[2][2], m[3][3]), QMul(m[2][3], m[3][2]))),
              QMul(m[1][2], QSub(QMul(m[2][1], m[3][3]), QMul(m[2][3], m[3][1])))),
         QMul(m[1][3], QSub(QMul(m[2][1], m[3][2]), QMul(m[2][2], m[3][1]))))

\* Cofactor of entry (i, j).
Cof(m, i, j) ==
    LET r1 == IF i = 1 THEN 2 ELSE 1
        r2 == IF i = 3 THEN 2 ELSE 3
        c1 == IF j = 1 THEN 2 ELSE 1
        c2 == IF j = 3 THEN 2 ELSE 3
        minor == QSub(QMul(m[r1][c1], m[r2][c2]), QMul(m[r1][c2], m[r2][c1]))
    IN  IF (i + j) % 2 = 0 THEN minor ELSE QNeg(minor)

\* The inverse of a non-singular 3 x 3 matrix.
Inverse3(m) ==
    LET d == Det3(m) IN
    [i \in 1..3 |-> [j \in 1..3 |-> QDiv(Cof(m, j, i), d)]]

IsShape33(m) == Len(m) = 3 /\ \A i \in 1..3 : Len(m[i]) = 3

\* ------------------------------------------------------------ log lines

(***************************************************************************)
(* A line of the log: k is the branch of the if/elif chain the line        *)
(* matches ("term", "prog", "celldm", "axes", "site", "cellp", "atpos",    *)
(* "energy", "xc", "wall"), or the kind of a line that matches none        *)
(* ("empty", "axrow", "siterow", "cellrow", "posrow"); v holds the line's  *)
(* numeric tokens, s and q its text.                                       *)
(***************************************************************************)
Line(k, v, s, q) == [k |-> k, v |-> v, s |-> s, q |-> q]

Blank == { " " }

\* s[:k] for a Python index k that may be negative.
SliceTo(s, k) ==
    IF k < 0 THEN Slice(s, 0, Len(s) + k)
    ELSE Slice(s, 0, IF k > Len(s) THEN Len(s) ELSE k)

Last(seq) == seq[Len(seq)]

\* --------------------------------------------------- program banner (83-86)

\* The version string of a line "     Program PWSCF <ver> starts ...".
ParseVersion(cur_line) ==
    LET v1 == Remove(Strip(cur_line, Blank), "Program PWSCF")
        v2 == Strip(SliceTo(v1, Find(v1, " starts ")), Blank)
    IN  IF StartsWith(v2, "v.") THEN Slice(v2, 2, Len(v2)) ELSE v2

\* ------------------------------------------------ atom labels (105-106)

\* A part of ase.data.chemical_symbols.
chemical_symbols == { "X", "H", "C", "O", "Si", "Fe" }

NormSymbol(label) ==
    LET s1 == SplitKeep(Strip(label, Digits), "_")[1] IN
    IF s1 \notin chemical_symbols /\ Len(s1) > 1
    THEN Slice(s1, 0, Len(s1) - 1)
    ELSE s1

\* --------------------------------------- exchange-correlation (30-71, 146-165)

\* A plausible slip: the alias "gaup" is given a display name of its own
\* (the table cut down to the aliased pair and two other entries).
xc_internal_map_AliasRenamed ==
    {
      [ key |-> "pw91",         name |-> "PW91",                    type |-> << "GGA" >>,
        setup |-> << "sla+pw+ggx+ggc" >> ],
      [ key |-> "pbe",          name |-> "PBE",                     type |-> << "GGA" >>,
        setup |-> << "sla+pw+pbx+pbc", "sla+pw+pbe+pbe" >> ],
      [ key |-> "gaupbe",       name |-> "Gau-PBE",                 type |-> << "GGA", "hybrid" >>,
        setup |-> << "sla+pw+gaup+pbc", "sla+pw+gaup+pbe" >> ],
      [ key |-> "gaup",         name |-> "Gau-PBE (old)",           type |-> << "GGA", "hybrid" >>,
        setup |-> << "sla+pw+gaup+pbc", "sla+pw+gaup+pbe" >> ]
    }

\* Lines 30-71: the lookup table, one record per key.
xc_internal_map ==
    {
      [ key |-> "pw",           name |-> "PW_LDA",                  type |-> << "LDA" >>,
        setup |-> << "sla+pw+nogx+nogc" >> ],
      [ key |-> "pz",           name |-> "PZ_LDA",                  type |-> << "LDA" >>,
        setup |-> << "sla+pz+nogx+nogc" >> ],
      [ key |-> "bp",           name |-> "Becke-Perdew grad.corr.", type |-> << "GGA" >>,
        setup |-> << "b88+p86+nogx+nogc" >> ],
      [ key |-> "pw91",         name |-> "PW91",                    type |-> << "GGA" >>,
        setup |-> << "sla+pw+ggx+ggc" >> ],
      [ key |-> "blyp",         name |-> "BLYP",                    type |-> << "GGA" >>,
        setup |-> << "sla+b88+lyp+blyp" >> ],
      [ key |-> "pbe",          name |-> "PBE",                     type |-> << "GGA" >>,
        setup |-> << "sla+pw+pbx+pbc", "sla+pw+pbe+pbe" >> ],
      [ key |-> "revpbe",       name |-> "revPBE",                  type |-> << "GGA" >>,
        setup |-> << "sla+pw+rpb+pbc", "sla+pw+rpb+pbe" >> ],
      [ key |-> "pw86pbe",      name |-> "PW86+PBE",                type |-> << "GGA" >>,
        setup |-> << "sla+pw+pw86+pbc", "sla+pw+pw86+pbe" >> ],
      [ key |-> "b86bpbe",      name |-> "B86b+PBE",                type |-> << "GGA" >>,
        setup |-> << "sla+pw+b86b+pbc", "sla+pw+b86b+pbe" >> ],
      [ key |-> "pbesol",       name |-> "PBEsol",                  type |-> << "GGA" >>,
        setup |-> << "sla+pw+psx+psc" >> ],
      [ key |-> "q2d",          name |-> "PBEQ2D",                  type |-> << "GGA" >>,
        setup |-> << "sla+pw+q2dx+q2dc" >> ],
      [ key |-> "hcth",         name |-> "HCTH/120",                type |-> << "GGA" >>,
        setup |-> << "nox+noc+hcth+hcth" >> ],
      [ key |-> "olyp",         name |-> "OLYP",                    type |-> << "GGA" >>,
        setup |-> << "nox+lyp+optx+blyp" >> ],
      [ key |-> "wc",           name |-> "Wu-Cohen",                type |-> << "GGA" >>,
        setup |-> << "sla+pw+wcx+pbc", "sla+pw+wcx+pbe" >> ],
      [ key |-> "sogga",        name |-> "SOGGA",                   type |-> << "GGA" >>,
        setup |-> << "sla+pw+sox+pbc", "sla+pw+sox+pbe" >> ],
      [ key |-> "optbk88",      name |-> "optB88",                  type |-> << "GGA" >>,
        setup |-> << "sla+pw+obk8+p86" >> ],
      [ key |-> "optb86b",      name |-> "optB86",                  type |-> << "GGA" >>,
        setup |-> << "sla+pw+ob86+p86" >> ],
      [ key |-> "ev93",         name |-> "Engel-Vosko",             type |-> << "GGA" >>,
        setup |-> << "sla+pw+evx+nogc" >> ],
      [ key |-> "tpss",         name |-> "TPSS",                    type |-> << "meta-GGA" >>,
        setup |-> << "sla+pw+tpss+tpss" >> ],
      [ key |-> "m06l",         name |-> "M06L",                    type |-> << "meta-GGA" >>,
        setup |-> << "nox+noc+m6lx+m6lc" >> ],
      [ key |-> "tb09",         name |-> "TB09",                    type |-> << "meta-GGA" >>,
        setup |-> << "sla+pw+tb09+tb09" >> ],
      [ key |-> "pbe0",         name |-> "PBE0",                    type |-> << "GGA", "hybrid" >>,
        setup |-> << "pb0x+pw+pb0x+pbc", "pb0x+pw+pb0x+pbe" >> ],
      [ key |-> "hse",          name |-> "HSE06",                   type |-> << "GGA", "hybrid" >>,
        setup |-> << "sla+pw+hse+pbc", "sla+pw+hse+pbe" >> ],
      [ key |-> "b3lyp",        name |-> "B3LYP",                   type |-> << "GGA", "hybrid" >>,
        setup |-> << "b3lp+vwn+b3lp+b3lp" >> ],
      [ key |-> "gaupbe",       name |-> "Gau-PBE",                 type |-> << "GGA", "hybrid" >>,
        setup |-> << "sla+pw+gaup+pbc", "sla+pw+gaup+pbe" >> ],
      [ key |-> "vdw-df",       name |-> "vdW-DF",                  type |-> << "GGA", "vdW" >>,
        setup |-> << "sla+pw+rpb+vdw1" >> ],
      [ key |-> "vdw-df2",      name |-> "vdW-DF2",                 type |-> << "GGA", "vdW" >>,
        setup |-> << "sla+pw+rw86+vdw2" >> ],
      [ key |-> "vdw-df-c09",   name |-> "vdW-DF-C09",              type |-> << "GGA", "vdW" >>,
        setup |-> << "sla+pw+c09x+vdw1" >> ],
      [ key |-> "vdw-df2-c09",  name |-> "vdW-DF2-C09",             type |-> << "GGA", "vdW" >>,
        setup |-> << "sla+pw+c09x+vdw2" >> ],
      [ key |-> "vdw-df-cx",    name |-> "vdW-DF-cx",               type |-> << "GGA", "vdW" >>,
        setup |-> << "sla+pw+cx13+vdW1" >> ],
      [ key |-> "vdw-df-obk8",  name |-> "vdW-DF-obk8",             type |-> << "GGA", "vdW" >>,
        setup |-> << "sla+pw+obk8+vdw1" >> ],
      [ key |-> "vdw-df-ob86",  name |-> "vdW-DF-ob86",             type |-> << "GGA", "vdW" >>,
        setup |-> << "sla+pw+ob86+vdw1" >> ],
      [ key |-> "vdw-df2-b86r", name |-> "vdW-DF2-B86R",            type |-> << "GGA", "vdW" >>,
        setup |-> << "sla+pw+b86r+vdw2" >> ],
      [ key |-> "rvv10",        name |-> "rVV10",                   type |-> << "GGA", "vdW" >>,
        setup |-> << "sla+pw+rw86+pbc+vv10", "sla+pw+rw86+pbe+vv10" >> ],
      [ key |-> "hf",           name |-> "Hartree-Fock",            type |-> << "HF" >>,
        setup |-> << "hf+noc+nogx+nogc" >> ],
      [ key |-> "vdw-df3",      name |-> "vdW-DF3",                 type |-> << "GGA", "vdW" >>,
        setup |-> << "sla+pw+rw86+vdw3" >> ],
      [ key |-> "vdw-df4",      name |-> "vdW-DF4",                 type |-> << "GGA", "vdW" >>,
        setup |-> << "sla+pw+rw86+vdw4" >> ],
      [ key |-> "gaup",         name |-> "Gau-PBE",                 type |-> << "GGA", "hybrid" >>,
        setup |-> << "sla+pw+gaup+pbc", "sla+pw+gaup+pbe" >> ]
    }

\* The descriptor tokens after line 150.
XcParts(cur_line) ==
    LET xc_str == Strip(Last(SplitKeep(cur_line, "=")), Blank)
        p1 == SplitBlank(SliceTo(xc_str, Find(xc_str, "(")))
        p2 == IF Len(p1) = 1 THEN SplitKeep(p1[1], "+") ELSE p1
        p3 == IF Len(p2) < 4 THEN << Join(p2, "+") >> ELSE p2
    IN  [i \in 1..Len(p3) |-> Strip(Lower(p3[i]), { "-", "'", "\"" })]

\* The entries a composite string is searched in (line 160).
XcMatch(joined) ==
    { e \in xc_internal_map : \E i \in 1..Len(e.setup) : e.setup[i] = joined }

\* A plausible slip: the composite-setup search is left out and every
\* descriptor is looked up as a table key.
XcResults_KeyOnly(cur_line) ==
    LET joined == Join(XcParts(cur_line), "+") IN
    IF \E e \in xc_internal_map : e.key = joined
    THEN { [H |-> e.name, H_types |-> e.type] :
               e \in { x \in xc_internal_map : x.key = joined } }
    ELSE { [H |-> joined, H_types |-> <<>>] }

(***************************************************************************)
(* The (functional name, category tags) pairs lines 152-165 can produce    *)
(* for a line.  match[0] is the first matching value in the dictionary's   *)
(* iteration order, which the language leaves open: every matching entry   *)
(* is a possible outcome.                                                  *)
(***************************************************************************)
XcResults(cur_line) ==
    LET xc_parts == XcParts(cur_line) IN
    IF Len(xc_parts) = 1
    THEN IF \E e \in xc_internal_map : e.key = xc_parts[1]
         THEN { [H |-> e.name, H_types |-> e.type] :
                    e \in { x \in xc_internal_map : x.key = xc_parts[1] } }
         ELSE { [H |-> xc_parts[1], H_types |-> <<>>] }
    ELSE LET joined == Join(xc_parts, "+") IN
         IF XcMatch(joined) /= {}
         THEN { [H |-> e.name, H_types |-> e.type] : e \in XcMatch(joined) }
         ELSE { [H |-> joined, H_types |-> <<>>] }

\* --------------------------------------------------- wall clock (168-176)

DigitChars == "0123456789"

IsDigit(c) == c /= "" /\ Contains(DigitChars, c)

RECURSIVE IntOf(_)
IntOf(s) ==
    IF s = "" THEN 0
    ELSE 10 * IntOf(Slice(s, 0, Len(s) - 1)) + Find(DigitChars, At(s, Len(s)))

\* Number of leading digits of s.
RECURSIVE DigitRun(_)
DigitRun(s) ==
    IF s /= "" /\ IsDigit(At(s, 1)) THEN 1 + DigitRun(Slice(s, 1, Len(s))) ELSE 0

(***************************************************************************)
(* One numeric directive of time.strptime (%H, %M, %S: one or two digits   *)
(* up to max) followed by the literal lit: <<value, rest>>, or None when   *)
(* the text does not match.                                                *)
(***************************************************************************)
TakeField(s, max, lit) ==
    LET k == DigitRun(s) IN
    IF k \in {1, 2} /\ IntOf(Slice(s, 0, k)) <= max /\ At(s, k + 1) = lit
    THEN Some(<< IntOf(Slice(s, 0, k)), Slice(s, k + 1, Len(s)) >>)
    ELSE None

\* The %f directive (one to six digits) followed by the final "s".
FractionOk(s) ==
    LET k == DigitRun(s) IN k \in 1..6 /\ Slice(s, k, Len(s)) = "s"

\* The text handed to time.strptime (lines 170-171).
DurationText(cur_line) ==
    LET d1 == Remove(Remove(Last(SplitKeep(cur_line, "CPU")), "time"), ",")
    IN  Remove(Strip(SliceTo(d1, Find(d1, "s") + 1), Blank), " ")

(***************************************************************************)
(* time.strptime(d, fmt) with fmt = [%Hh][%Mm]%S.%fs and the conversion    *)
(* of line 176: the duration in hundredths of an hour, or None when        *)
(* strptime raises ValueError.                                             *)
(***************************************************************************)
ParseDuration(d) ==
    LET hh == IF Contains(d, "h") THEN TakeField(d, 23, "h") ELSE Some(<< 0, d >>)
        r1 == IF IsSome(hh) THEN Val(hh)[2] ELSE ""
        mm == IF Contains(d, "m") THEN TakeField(r1, 59, "m") ELSE Some(<< 0, r1 >>)
        r2 == IF IsSome(mm) THEN Val(mm)[2] ELSE ""
        ss == TakeField(r2, 61, ".")
    IN  IF IsSome(hh) /\ IsSome(mm) /\ IsSome(ss) /\ FractionOk(Val(ss)[2])
        THEN Some(((Val(hh)[1] * 3600 + Val(mm)[1] * 60 + Val(ss)[1]) * 100 + 1800)
                      \div 3600)
        ELSE None

\* ------------------------------------------------------ detector (184-187)

fingerprints(test_string) ==
    (Contains(test_string, "pwscf") \/ Contains(test_string, "PWSCF"))
        /\ Contains(test_string, "     Current dimensions of program ")

\* ------------------------------------------------------------------ state

VARIABLES
    data,           \* self.data: the lines of the log (line 73)
    n,              \* index of the line the for loop of line 76 dispatches next
    pc,             \* "scan", "done" (the constructor returned) or "failed"
    info,           \* self.info and self.electrons
    atomic_data,    \* None or the ase.Atoms object
    cell_data,      \* the running cell matrix, in raw units
    pos_data,       \* the running positions: a list, then a numpy array
    symbol_data,    \* the symbols of the site table
    alat,           \* the lattice scale factor
    structures,     \* self.structures
    related_files,  \* self.related_files
    test_string,    \* the sample handed to fingerprints
    detected        \* None or the value fingerprints returned

vars ==
    << data, n, pc, info, atomic_data, cell_data, pos_data, symbol_data, alat,
       structures, related_files, test_string, detected >>

scan_vars ==
    << info, atomic_data, cell_data, pos_data, symbol_data, alat, structures,
       related_files >>

(***************************************************************************)
(* The fields the base class Output sets before the parser's constructor   *)
(* body runs: nothing parsed yet.                                          *)
(***************************************************************************)
OutputInit ==
    [ framework |-> None, prog |-> None, finished |-> None, energy |-> None,
      H |-> None, H_types |-> <<>>, duration |-> None, electrons_type |-> None ]

\* Lines 20-27 and 74: the state when the scan of line 76 starts.
InitScan(lines) ==
    /\ data = lines
    /\ n = 1
    /\ pc = "scan"
    /\ info = [ OutputInit EXCEPT !.framework = Some("Quantum ESPRESSO"),
                                  !.finished = Some(-1),
                                  !.electrons_type = Some("plane waves") ]
    /\ atomic_data = None
    /\ cell_data = <<>>
    /\ pos_data = [arr |-> FALSE, rows |-> <<>>]
    /\ symbol_data = <<>>
    /\ alat = Num(0)
    /\ structures = <<>>
    /\ related_files = << "log" >>

\* -------------------------------------------------------- ase.Atoms calls

\* Python truth value: None and a zero-length Atoms (len() == 0) are false.
Truthy(a) == IsSome(a) /\ Len(Val(a).symbols) > 0

(***************************************************************************)
(* Atoms(symbols, positions, cell=cell, pbc=(1,1,1)): None when the        *)
(* constructor raises (a cell that is not 3 x 3, an unknown symbol, arrays *)
(* of different lengths).                                                  *)
(***************************************************************************)
Atoms(symbols, positions, cell) ==
    IF /\ IsShape33(cell)
       /\ \A i \in 1..Len(symbols) : symbols[i] \in chemical_symbols
       /\ Len(symbols) = Len(positions)
    THEN Some([ symbols |-> symbols, positions |-> positions, cell |-> cell,
                pbc |-> << TRUE, TRUE, TRUE >> ])
    ELSE None

\* A plausible slip: scale_atoms is left out, the positions stay as they are.
set_cell_NoScale(a, cell) ==
    IF IsZero(Det3(a.cell)) THEN None ELSE Some([ a EXCEPT !.cell = cell ])

(***************************************************************************)
(* a.set_cell(cell, scale_atoms=True): the positions are multiplied by     *)
(* solve(old cell, new cell); None when the old cell is singular           *)
(* (numpy.linalg.LinAlgError).                                             *)
(***************************************************************************)
set_cell(a, cell) ==
    IF IsZero(Det3(a.cell)) THEN None
    ELSE Some([ a EXCEPT !.cell = cell,
                         !.positions = MatMul(MatMul(a.positions, Inverse3(a.cell)), cell) ])

set_positions(a, positions) == [ a EXCEPT !.positions = positions ]

set_scaled_positions(a, scaled) == [ a EXCEPT !.positions = MatMul(scaled, a.cell) ]

\* ------------------------------------------------------------- the scan

\* The for loop is at a line of kind k.
At_(k) == pc = "scan" /\ n <= Len(data) /\ data[n].k = k

\* The loop body ended (also by continue): the for loop takes the next index.
NextLine == n' = n + 1 /\ pc' = pc /\ UNCHANGED << data, test_string, detected >>

\* An exception leaves the constructor: no record is produced.
Raise == pc' = "failed" /\ UNCHANGED << data, n, test_string, detected, scan_vars >>

\* A plausible slip: the termination banner marks the run as not finished.
TermInfo_Unfinished(old) == [ old EXCEPT !.finished = Some(0) ]

\* Line 80: the record after a termination banner.
TermInfo(old) == [ old EXCEPT !.finished = Some(1) ]

\* Lines 79-80.
Terminated ==
    /\ At_("term")
    /\ info' = TermInfo(info)
    /\ NextLine
    /\ UNCHANGED << atomic_data, cell_data, pos_data, symbol_data, alat,
                    structures, related_files >>

\* Lines 82-86.
ProgramBanner ==
    /\ At_("prog")
    /\ info' = [ info EXCEPT
                   !.prog = Some(Val(info.framework) \o " " \o ParseVersion(data[n].s)) ]
    /\ NextLine
    /\ UNCHANGED << atomic_data, cell_data, pos_data, symbol_data, alat,
                    structures, related_files >>

\* A plausible slip: every celldm line overwrites the scale factor.
CelldmAlat_Last(old, c) ==
    LET a == QMul(Num(c), Bohr) IN IF IsZero(a) THEN Num(1) ELSE a

\* Lines 89-91: the value alat has after a celldm line with first number c.
CelldmAlat(old, c) ==
    IF IsZero(old)
    THEN LET a == QMul(Num(c), Bohr) IN IF IsZero(a) THEN Num(1) ELSE a
    ELSE old

\* Lines 88-91.
Celldm ==
    /\ At_("celldm")
    /\ alat' = CelldmAlat(alat, data[n].v[1])
    /\ NextLine
    /\ UNCHANGED << info, atomic_data, cell_data, pos_data, symbol_data,
                    structures, related_files >>

\* self.data[n + 1:n + 4]: the (at most 3) lines after line n.
AxesLines == SubSeq(data, n + 1, IF n + 3 > Len(data) THEN Len(data) ELSE n + 3)

(***************************************************************************)
(* Lines 93-95.  A following line that is not a crystal-axes row does not  *)
(* give three numbers at tokens 3..5: float() or the array arithmetic      *)
(* that follows raises.                                                    *)
(***************************************************************************)
CrystalAxes ==
    /\ At_("axes")
    /\ IF \A i \in 1..Len(AxesLines) : AxesLines[i].k = "axrow"
       THEN /\ cell_data' = [i \in 1..Len(AxesLines) |-> NumRow(AxesLines[i].v)]
            /\ NextLine
            /\ UNCHANGED << info, atomic_data, pos_data, symbol_data, alat,
                            structures, related_files >>
       ELSE Raise

\* Line 98: a site table is skipped when positions were already collected.
SiteSkip(pos) == Len(pos.rows) > 0

\* The index of the first empty line after line n, or 0 when there is none.
SiteEnd ==
    IF \E j \in (n + 1)..Len(data) : data[j].k = "empty"
    THEN CHOOSE j \in (n + 1)..Len(data) :
             data[j].k = "empty" /\ \A i \in (n + 1)..(j - 1) : data[i].k /= "empty"
    ELSE 0

\* The lines between the site header and the empty line that ends the table.
SiteRows == IF SiteEnd = 0 THEN <<>> ELSE SubSeq(data, n + 1, SiteEnd - 1)

(***************************************************************************)
(* Lines 97-109.  The while loop raises IndexError when the log ends       *)
(* before an empty line, float() or next_line[1] or the Atoms constructor  *)
(* raises for a line that is not a site row, and pos_data.append raises    *)
(* AttributeError once pos_data is a numpy array (a first table with no    *)
(* rows leaves it an empty array, which line 98 does not skip).            *)
(***************************************************************************)
SiteTable ==
    /\ At_("site")
    /\ IF SiteSkip(pos_data)
       THEN NextLine /\ UNCHANGED scan_vars
       ELSE LET rows == SiteRows
                pos == pos_data.rows \o [i \in 1..Len(rows) |-> NumRow(rows[i].v)]
                syms == symbol_data \o [i \in 1..Len(rows) |-> NormSymbol(rows[i].s)]
                scaled == MScale(pos, alat)
                made == Atoms(syms, scaled, MScale(cell_data, alat))
            IN  IF \/ SiteEnd = 0
                   \/ \E i \in 1..Len(rows) : rows[i].k /= "siterow"
                   \/ (pos_data.arr /\ rows /= <<>>)
                   \/ made = None
                THEN Raise
                ELSE /\ pos_data' = [arr |-> TRUE, rows |-> scaled]
                     /\ symbol_data' = syms
                     /\ atomic_data' = made
                     /\ NextLine
                     /\ UNCHANGED << info, cell_data, alat, structures, related_files >>

(***************************************************************************)
(* The for loop of lines 112-116 stops at its first row i (0-based) that   *)
(* is missing, empty, not three numbers, or has no row i of cell_data to   *)
(* go into; 3 when all three rows were copied.                             *)
(***************************************************************************)
CellRowOk(i) ==
    /\ n + 1 + i <= Len(data)
    /\ data[n + 1 + i].k = "cellrow"
    /\ i < Len(cell_data)

CellStop ==
    IF \E i \in 0..2 : ~CellRowOk(i)
    THEN CHOOSE i \in 0..2 : ~CellRowOk(i) /\ \A j \in 0..(i - 1) : CellRowOk(j)
    ELSE 3

\* Line 116 for the rows before row stop: cell_data is overwritten in place.
CellOverwrite(cd, stop) ==
    [i \in 1..Len(cd) |-> IF i <= stop THEN NumRow(data[n + i].v) ELSE cd[i]]

\* Lines 118-120.
CellMult(cur_line) ==
    IF Contains(cur_line, "bohr") THEN Bohr
    ELSE IF Contains(cur_line, "alat") THEN alat
    ELSE Num(1)

(***************************************************************************)
(* Lines 111-121.  A break at an empty row skips the else clause; the end  *)
(* of the log (IndexError), a row of another kind (ValueError), a missing  *)
(* row of cell_data (IndexError), atomic_data = None (AttributeError) and  *)
(* a singular old cell (LinAlgError) raise.                                *)
(***************************************************************************)
CellParameters ==
    /\ At_("cellp")
    /\ LET stop == CellStop
           cd == CellOverwrite(cell_data, stop)
       IN  IF stop < 3
           THEN IF n + 1 + stop <= Len(data) /\ data[n + 1 + stop].k = "empty"
                THEN /\ cell_data' = cd
                     /\ NextLine
                     /\ UNCHANGED << info, atomic_data, pos_data, symbol_data, alat,
                                     structures, related_files >>
                ELSE Raise
           ELSE LET new == IF IsSome(atomic_data)
                           THEN set_cell(Val(atomic_data), MScale(cd, CellMult(data[n].s)))
                           ELSE None
                IN  IF new = None
                    THEN Raise
                    ELSE /\ cell_data' = cd
                         /\ atomic_data' = new
                         /\ NextLine
                         /\ UNCHANGED << info, pos_data, symbol_data, alat, structures,
                                         related_files >>

\* Line 124.
CoordFlag(cur_line) == Strip(Last(SplitKeep(cur_line, "(")), Blank)

\* A plausible slip: coordinates without a known qualifier are taken as
\* Cartesian instead of fractional.
ApplyPositions_Cartesian(a, flag, pos) ==
    IF flag = "alat)" THEN set_positions(a, MScale(pos, alat))
    ELSE IF flag = "bohr)" THEN set_positions(a, MScale(pos, Bohr))
    ELSE set_positions(a, pos)

\* Lines 131-138.
ApplyPositions(a, flag, pos) ==
    IF flag = "alat)" THEN set_positions(a, MScale(pos, alat))
    ELSE IF flag = "bohr)" THEN set_positions(a, MScale(pos, Bohr))
    ELSE IF flag = "angstrom)" THEN set_positions(a, pos)
    ELSE set_scaled_positions(a, pos)

(***************************************************************************)
(* Lines 123-138.  The loop reads len(pos_data) rows; the end of the log   *)
(* (IndexError) and a line that does not give three numbers at tokens      *)
(* 1..3 (ValueError) raise.                                                *)
(***************************************************************************)
AtomicPositions ==
    /\ At_("atpos")
    /\ LET N == Len(pos_data.rows)
           raw == [i \in 1..N |-> NumRow(data[n + i].v)]
       IN  IF \E i \in 1..N : n + i > Len(data) \/ data[n + i].k /= "posrow"
           THEN Raise
           ELSE IF ~Truthy(atomic_data)
           THEN /\ pos_data' = [pos_data EXCEPT !.rows = raw]
                /\ NextLine
                /\ UNCHANGED << info, atomic_data, cell_data, symbol_data, alat,
                                structures, related_files >>
           ELSE /\ pos_data' = [pos_data EXCEPT !.rows = raw]
                /\ atomic_data' =
                       Some(ApplyPositions(Val(atomic_data), CoordFlag(data[n].s), raw))
                /\ NextLine
                /\ UNCHANGED << info, cell_data, symbol_data, alat, structures,
                                related_files >>

\* Line 141: float(cur_line.split()[-2]) * Rydberg.
EnergyOf(e) == QMul(Num(e), Rydberg)

\* A plausible slip: the first total-energy line wins.
EnergyKeepFirst(old, e) == IF IsSome(old) THEN old ELSE Some(EnergyOf(e))

\* Line 141: the assignment overwrites the energy found before.
EnergyUpdate(old, e) == Some(EnergyOf(e))

\* Lines 140-141.  Without a unit token the second-to-last token is "=".
TotalEnergy ==
    /\ At_("energy")
    /\ IF data[n].q = ""
       THEN Raise
       ELSE /\ info' = [ info EXCEPT !.energy = EnergyUpdate(info.energy, data[n].v[1]) ]
            /\ NextLine
            /\ UNCHANGED << atomic_data, cell_data, pos_data, symbol_data, alat,
                            structures, related_files >>

\* Line 144: the truth value of self.info['H'] (None and '' are false).
HasFunctional(H) == IsSome(H) /\ Val(H) /= ""

\* Lines 143-165.
ExchangeCorrelation ==
    /\ At_("xc")
    /\ IF HasFunctional(info.H)
       THEN info' = info
       ELSE \E r \in XcResults(data[n].s) :
                info' = [ info EXCEPT !.H = Some(r.H),
                                      !.H_types = info.H_types \o r.H_types ]
    /\ NextLine
    /\ UNCHANGED << atomic_data, cell_data, pos_data, symbol_data, alat,
                    structures, related_files >>

\* Line 168.
HasWallMarker(cur_line) == Contains(cur_line, "WALL") \/ Contains(cur_line, "wall")

\* A plausible slip: line 177 repeats the -1 of line 26.
WallInfo_Unfinished(old, dur) ==
    [ old EXCEPT !.duration = Some(dur), !.finished = Some(-1) ]

\* Lines 176-177: the record after a wall-clock banner with duration dur.
WallInfo(old, dur) == [ old EXCEPT !.duration = Some(dur), !.finished = Some(1) ]

\* Lines 167-177.
WallClock ==
    /\ At_("wall")
    /\ IF ~HasWallMarker(data[n].s)
       THEN NextLine /\ UNCHANGED scan_vars
       ELSE LET dur == ParseDuration(DurationText(data[n].s)) IN
            IF dur = None
            THEN Raise
            ELSE /\ info' = WallInfo(info, Val(dur))
                 /\ NextLine
                 /\ UNCHANGED << atomic_data, cell_data, pos_data, symbol_data, alat,
                                 structures, related_files >>

NoMatchKinds == { "empty", "axrow", "siterow", "cellrow", "posrow" }

\* A line no branch of the chain matches.
NoMatch ==
    /\ pc = "scan" /\ n <= Len(data) /\ data[n].k \in NoMatchKinds
    /\ NextLine
    /\ UNCHANGED scan_vars

(***************************************************************************)
(* Lines 179-182: the loop is over.  Whether the sibling input file exists *)
(* is the file system's choice.                                            *)
(***************************************************************************)
EndOfScan ==
    /\ pc = "scan" /\ n > Len(data)
    /\ structures' = IF Truthy(atomic_data)
                     THEN Append(structures, Val(atomic_data))
                     ELSE structures
    /\ \E exists \in BOOLEAN :
           related_files' = IF exists THEN Append(related_files, "in")
                            ELSE related_files
    /\ pc' = "done"
    /\ UNCHANGED << data, n, info, atomic_data, cell_data, pos_data, symbol_data,
                    alat, test_string, detected >>

\* Lines 184-187.
Fingerprints ==
    /\ pc = "detect"
    /\ detected = None
    /\ detected' = Some(fingerprints(test_string))
    /\ UNCHANGED << data, n, pc, test_string, scan_vars >>

\* ------------------------------------------------------------ the inputs

L_term == Line("term", <<>>, "     This run was terminated on:  12:00:00   1Jan2020", "")

L_prog == Line("prog", <<>>, "     Program PWSCF v.6.1 starts on  1Jan2020 at 12: 0: 0", "")

L_celldm(c) == Line("celldm", << c >>, "", "")

L_axes == Line("axes", <<>>, "", "")

L_axrow(x, y, z) == Line("axrow", << x, y, z >>, "", "")

L_site == Line("site", <<>>, "", "")

L_siterow(label, x, y, z) == Line("siterow", << x, y, z >>, label, "")

L_cellp(rest) == Line("cellp", <<>>, "CELL_PARAMETERS " \o rest, "")

L_cellrow(x, y, z) == Line("cellrow", << x, y, z >>, "", "")

L_atpos(rest) == Line("atpos", <<>>, "ATOMIC_POSITIONS " \o rest, "")

L_posrow(sym, x, y, z) == Line("posrow", << x, y, z >>, sym, "")

L_energy(e, unit) == Line("energy", << e >>, "", unit)

L_xc(rest) == Line("xc", <<>>, "     Exchange-correlation      = " \o rest, "")

L_wall(rest) == Line("wall", <<>>, "     PWSCF        :" \o rest, "")

L_empty == Line("empty", <<>>, "", "")

\* The blocks the logs of Spec are concatenated from.
Catalogue ==
    { << L_term >>,
      << L_prog >>,
      << L_celldm(2) >>,
      << L_axes, L_axrow(1, 0, 0), L_axrow(0, 1, 0), L_axrow(0, 0, 1) >>,
      << L_celldm(3), L_axes, L_axrow(2, 0, 0), L_axrow(0, 2, 0), L_axrow(1, 0, 2) >>,
      << L_site, L_siterow("Fe1", 1, 1, 0), L_empty >>,
      << L_site, L_siterow("O", 0, 0, 0), L_siterow("Fe_a", 0, 1, 1), L_empty >>,
      << L_site, L_empty >>,
      << L_site, L_siterow("H", 0, 0, 1) >>,
      << L_cellp("(alat= 2.0)"), L_cellrow(3, 0, 0), L_cellrow(0, 3, 0),
         L_cellrow(0, 0, 3) >>,
      << L_cellp("(bohr)"), L_cellrow(5, 0, 0) >>,
      << L_atpos("(alat)"), L_posrow("Fe", 1, 0, 0) >>,
      << L_atpos("(crystal)"), L_posrow("O", 0, 1, 0), L_posrow("Fe", 1, 0, 1) >>,
      << L_energy(-3, "Ry") >>,
      << L_energy(-5, "Ry") >>,
      << L_xc("PBE ( 1  4  3  4 0 0)") >>,
      << L_wall("     0.52s CPU     0.58s WALL") >>,
      << L_wall("     0.52s CPU") >>,
      << L_wall("     1h 2m CPU     1h 3m WALL") >>,
      << L_empty >> }

RECURSIVE Flatten(_)
Flatten(blocks) ==
    IF blocks = <<>> THEN <<>> ELSE Head(blocks) \o Flatten(Tail(blocks))

\* The scan starts on a log made of at most k blocks of cat.
InitLog(cat, k) == \E m \in 0..k : \E f \in [1..m -> cat] : InitScan(Flatten(f))

\* -------------------------------------------------------- specifications

Init ==
    /\ InitLog(Catalogue, MaxBlocks)
    /\ test_string = ""
    /\ detected = None

Next ==
    \/ Terminated
    \/ ProgramBanner
    \/ Celldm
    \/ CrystalAxes
    \/ SiteTable
    \/ CellParameters
    \/ AtomicPositions
    \/ TotalEnergy
    \/ ExchangeCorrelation
    \/ WallClock
    \/ NoMatch
    \/ EndOfScan

Spec == Init /\ [][Next]_vars

\* ---- the exchange-correlation lines alone

\* A line whose descriptor (the text between "=" and the first "(") is d.
XcLine(d) == L_xc(d \o " ( 1  4  3  4 0 0)")

\* Every composite-setup string of the lookup table.
SetupStrings == UNION { { e.setup[i] : i \in 1..Len(e.setup) } : e \in xc_internal_map }

XcCatalogue ==
    { << XcLine("PBE") >>,
      << XcLine("") >>,
      << XcLine("'XYZ'") >>,
      << XcLine(" SLA  PW   GGX  GGC") >>,
      << L_empty >> }

\* Descriptors of every shape: a key, a quoted unknown name, nothing, two
\* tokens, four tokens that hit and that miss, one token of four parts,
\* dashes to strip, a key with a dash inside, an aliased composite string.
XcDescriptors ==
    { "PBE", "'XYZ'", "", "SLA PW", " SLA  PW   GGX  GGC", "A B C D",
      "sla+pw+pbx+pbc", "-B3LYP-", "VDW-DF", "SLA PW GAUP PBE", "'SLA' PW RPB PBC" }

InitXC ==
    /\ \/ InitLog(XcCatalogue, MaxXcLines)
       \/ \E d \in SetupStrings \cup XcDescriptors : InitScan(<< XcLine(d) >>)
    /\ test_string = ""
    /\ detected = None

NextXC ==
    \/ ExchangeCorrelation
    \/ NoMatch
    \/ EndOfScan

SpecXC == InitXC /\ [][NextXC]_vars

\* ---- the geometry lines alone

\* A lattice scale line, a crystal-axes block and a site table with one atom.
OneAtomLog ==
    << L_celldm(3), L_axes, L_axrow(2, 0, 0), L_axrow(0, 2, 0), L_axrow(1, 0, 2),
       L_site, L_siterow("Fe1", 1, 1, 0), L_empty >>

\* A crystal-axes block and a site table with two atoms.
TwoAtomLog ==
    << L_axes, L_axrow(1, 0, 0), L_axrow(0, 1, 0), L_axrow(0, 0, 1),
       L_site, L_siterow("O", 1, 0, 0), L_siterow("Fe_a", 0, 1, 1), L_empty >>

\* The blocks the logs of SpecGeom are concatenated from.
GeomCatalogue ==
    { << L_celldm(0) >>,
      << L_celldm(2) >>,
      OneAtomLog,
      TwoAtomLog,
      << L_cellp("(alat= 2.0)"), L_cellrow(3, 0, 0), L_cellrow(0, 3, 0),
         L_cellrow(0, 0, 3) >>,
      << L_cellp("(bohr)"), L_cellrow(1, 1, 0), L_cellrow(0, 1, 0),
         L_cellrow(0, 0, 2) >>,
      << L_cellp("(angstrom)"), L_cellrow(1, 0, 0), L_cellrow(0, 2, 0),
         L_cellrow(0, 0, 1) >>,
      << L_cellp("(bohr)"), L_cellrow(5, 0, 0), L_empty >>,
      << L_atpos("(alat)"), L_posrow("Fe", 1, 0, 0) >>,
      << L_atpos("(bohr)"), L_posrow("Fe", 0, 1, 2) >>,
      << L_atpos("(angstrom)"), L_posrow("Fe", 2, 0, 1) >>,
      << L_atpos("(crystal)"), L_posrow("Fe", 1, 2, 0) >>,
      << L_atpos(""), L_posrow("Fe", 0, 1, 1) >>,
      << L_atpos("(crystal)"), L_posrow("O", 0, 1, 0), L_posrow("Fe", 1, 0, 1) >>,
      << L_empty >> }

InitGeom ==
    /\ InitLog(GeomCatalogue, MaxBlocks)
    /\ test_string = ""
    /\ detected = None

NextGeom ==
    \/ Celldm
    \/ CrystalAxes
    \/ SiteTable
    \/ CellParameters
    \/ AtomicPositions
    \/ NoMatch
    \/ EndOfScan

SpecGeom == InitGeom /\ [][NextGeom]_vars

\* ---- the detector alone

Marker == "     Current dimensions of program "

Pieces ==
    { "pwscf", "PWSCF", "Pwscf", "PWscf", Marker, "     Program ",
      "     current dimensions of program " }

\* The scan is not running; the detector is handed a sample.
InitDetect ==
    /\ \E m \in 0..MaxPieces : \E f \in [1..m -> Pieces] :
           test_string = Join(f, "")
    /\ detected = None
    /\ data = <<>>
    /\ n = 1
    /\ pc = "detect"
    /\ info = OutputInit
    /\ atomic_data = None
    /\ cell_data = <<>>
    /\ pos_data = [arr |-> FALSE, rows |-> <<>>]
    /\ symbol_data = <<>>
    /\ alat = Num(0)
    /\ structures = <<>>
    /\ related_files = <<>>

NextDetect == Fingerprints

SpecDetect == InitDetect /\ [][NextDetect]_vars

\* ------------------------------------------------------------- properties

\* A site-table header was dispatched before line n.
SiteSeen == \E i \in 1..(n - 1) : data[i].k = "site"

\* Every line after line n, to the end of the log, has kind k.
RestAll(k) == \A i \in (n + 1)..Len(data) : data[i].k = k

(***************************************************************************)
(* C1: once a structure was constructed from the first site table (zero    *)
(* rows included), every later site table leaves the structure and the     *)
(* scan state unchanged and the scan goes on, the structure's symbols      *)
(* never change, and only a CELL_PARAMETERS or an ATOMIC_POSITIONS block   *)
(* changes the structure.                                                  *)
(***************************************************************************)
C1_FirstTableWins ==
    [][ IsSome(atomic_data) =>
          /\ At_("site") => (pc' = "scan" /\ UNCHANGED scan_vars)
          /\ IsSome(atomic_data')
          /\ Val(atomic_data').symbols = Val(atomic_data).symbols
          /\ ~(At_("cellp") \/ At_("atpos")) => atomic_data' = atomic_data ]_vars

(***************************************************************************)
(* C2: a CELL_PARAMETERS block that is aborted at an empty row leaves the  *)
(* running cell matrix and the structure's cell as they were.              *)
(***************************************************************************)
C2_CellAllOrNothing ==
    [][ (At_("cellp") /\ CellStop < 3 /\ pc' = "scan") =>
          (cell_data' = cell_data /\ atomic_data' = atomic_data) ]_vars

(***************************************************************************)
(* C3: a CELL_PARAMETERS or an ATOMIC_POSITIONS header dispatched before   *)
(* any site table does not fail the scan and changes nothing the record    *)
(* is built from.                                                          *)
(***************************************************************************)
C3_BlockBeforeStructureDropped ==
    [][ ((At_("cellp") \/ At_("atpos")) /\ ~SiteSeen) =>
          (pc' = "scan" /\ UNCHANGED scan_vars) ]_vars

(***************************************************************************)
(* A lookahead that only the end of the log cuts short: a first site table *)
(* with rows and a 3 x 3 cell but no empty line, a CELL_PARAMETERS header  *)
(* with fewer than 3 rows left, an ATOMIC_POSITIONS header with fewer rows *)
(* left than atoms.                                                        *)
(***************************************************************************)
CutShortByEof ==
    \/ /\ At_("site") /\ ~SiteSkip(pos_data) /\ ~pos_data.arr
       /\ RestAll("siterow") /\ IsShape33(cell_data)
    \/ /\ At_("cellp") /\ n + 3 > Len(data)
       /\ RestAll("cellrow") /\ IsShape33(cell_data)
    \/ /\ At_("atpos") /\ n + Len(pos_data.rows) > Len(data)
       /\ RestAll("posrow")

(***************************************************************************)
(* C4: a lookahead block cut short by the end of the log does not raise:   *)
(* the scan goes on to its end, and the site table keeps the rows          *)
(* collected so far.                                                       *)
(***************************************************************************)
C4_EofNeverRaises ==
    [][ CutShortByEof =>
          /\ pc' = "scan"
          /\ At_("site") =>
                 /\ IsSome(atomic_data')
                 /\ Len(Val(atomic_data').symbols) = Len(data) - n ]_vars

\* The line is a termination banner, or a wall-clock banner with its marker.
IsTermBanner(l) == l.k = "term"

IsWallBanner(l) == l.k = "wall" /\ HasWallMarker(l.s)

\* The kind of the last banner among lines: "term", "wall" or "none".
RECURSIVE LastBanner(_)
LastBanner(lines) ==
    IF lines = <<>> THEN "none"
    ELSE IF IsTermBanner(Last(lines)) THEN "term"
    ELSE IF IsWallBanner(Last(lines)) THEN "wall"
    ELSE LastBanner(SubSeq(lines, 1, Len(lines) - 1))

TermThenWall(lines) ==
    \E i, j \in 1..Len(lines) :
        /\ i < j
        /\ IsTermBanner(lines[i])
        /\ lines[j].k = "wall" /\ Contains(lines[j].s, "WALL")
        /\ \A k \in (j + 1)..Len(lines) : ~IsTermBanner(lines[k])

(***************************************************************************)
(* C6: when a termination banner is followed later by a wall-clock banner  *)
(* with the WALL marker and no termination banner follows it,              *)
(* finished_flag at the end of the scan is the finished value, 1.          *)
(***************************************************************************)
C6_TermThenWallFinished ==
    (pc = "done" /\ TermThenWall(data)) => info.finished = Some(1)

\* A finished scan with the two banners in that order, other lines between.
C6_Witness ==
    /\ pc = "done"
    /\ \E i, j \in 1..Len(data) :
           /\ i + 1 < j
           /\ IsTermBanner(data[i])
           /\ data[j].k = "wall" /\ Contains(data[j].s, "WALL")
    /\ LastBanner(data) = "wall"
    /\ info.finished = Some(1)

\* The converted value of the last total-energy line of lines, or None.
RECURSIVE LastEnergy(_)
LastEnergy(lines) ==
    IF lines = <<>> THEN None
    ELSE IF Last(lines).k = "energy"
         THEN Some(QMul(Num(Last(lines).v[1]), Rydberg))
         ELSE LastEnergy(SubSeq(lines, 1, Len(lines) - 1))

(***************************************************************************)
(* C9: final_energy is at every point of the scan the converted value of   *)
(* the last total-energy line dispatched so far, unset when there was      *)
(* none; at the end of the scan that is the last such line of the log, and *)
(* a log without one ends the scan with final_energy unset.                *)
(***************************************************************************)
C9_LastEnergyWins ==
    /\ pc \in { "scan", "done" } => info.energy = LastEnergy(SubSeq(data, 1, n - 1))
    /\ pc = "done" => n = Len(data) + 1

\* A finished scan of a log with two total-energy lines of different values.
C9_Witness ==
    /\ pc = "done"
    /\ \E i, j \in 1..Len(data) :
           /\ i < j
           /\ data[i].k = "energy" /\ data[j].k = "energy"
           /\ data[i].v /= data[j].v
           /\ \A k \in (j + 1)..Len(data) : data[k].k /= "energy"
           /\ info.energy = Some(QMul(Num(data[j].v[1]), Rydberg))

\* An exchange-correlation line was dispatched before line n.
XcSeen == \E i \in 1..(n - 1) : data[i].k = "xc"

(***************************************************************************)
(* C7: once an exchange-correlation line was processed, nothing changes    *)
(* functional_name or functional_types any more, whatever the descriptor   *)
(* of that first line was.                                                 *)
(***************************************************************************)
C7_FunctionalSetOnce ==
    [][ XcSeen => (info'.H = info.H /\ info'.H_types = info.H_types) ]_vars

(***************************************************************************)
(* C8: a log whose exchange-correlation descriptor is a composite-setup    *)
(* string of a table entry ends with that entry's display name and         *)
(* category tags.                                                          *)
(***************************************************************************)
C8_SetupRoundTrip ==
    \A e \in xc_internal_map : \A i \in 1..Len(e.setup) :
        (pc = "done" /\ data = << XcLine(e.setup[i]) >>) =>
            (info.H = Some(e.name) /\ info.H_types = e.type)

(***************************************************************************)
(* C10: the detector returns true iff the sample contains "pwscf" in any   *)
(* letter case and the marker substring.                                   *)
(***************************************************************************)
C10_DetectorAnyCase ==
    IsSome(detected) =>
        Val(detected) = ( /\ Contains(Lower(test_string), "pwscf")
                          /\ Contains(test_string, Marker) )

(***************************************************************************)
(* The number of lines after line n the lookahead of the branch dispatched *)
(* at line n has read when the branch ends without raising: the rows and   *)
(* the empty line of a site table that is not skipped, the rows of a       *)
(* CELL_PARAMETERS block (with the empty line that cuts it short), the     *)
(* rows of an ATOMIC_POSITIONS block; 0 for every other line.              *)
(***************************************************************************)
LookaheadLines ==
    IF At_("site") /\ ~SiteSkip(pos_data) THEN SiteEnd - n
    ELSE IF At_("cellp") THEN (IF CellStop < 3 THEN CellStop + 1 ELSE 3)
    ELSE IF At_("atpos") THEN Len(pos_data.rows)
    ELSE 0

(***************************************************************************)
(* C11: the lines a block lookahead consumed are not dispatched again: the *)
(* main scan resumes at the first line after the consumed block.           *)
(***************************************************************************)
C11_LookaheadNotRedispatched ==
    [][ (pc = "scan" /\ pc' = "scan") => n' = n + 1 + LookaheadLines ]_vars

\* The first number of the first celldm line of lines, or None.
RECURSIVE FirstCelldm(_)
FirstCelldm(lines) ==
    IF lines = <<>> THEN None
    ELSE IF Head(lines).k = "celldm" THEN Some(Head(lines).v[1])
    ELSE FirstCelldm(Tail(lines))

(***************************************************************************)
(* C12: once a celldm line was processed the lattice scale factor is       *)
(* non-zero and is the value of the first celldm line (its first number    *)
(* times Bohr, 1 when that is zero), whatever celldm lines follow.         *)
(***************************************************************************)
C12_AlatFromFirstCelldm ==
    LET first == FirstCelldm(SubSeq(data, 1, n - 1)) IN
    (pc \in { "scan", "done" } /\ IsSome(first)) =>
        /\ ~IsZero(alat)
        /\ alat = IF Val(first) = 0 THEN Num(1) ELSE QMul(Num(Val(first)), Bohr)

\* A finished scan of a log whose first celldm line gives zero and which
\* has a later celldm line with another value.
C12_Witness ==
    /\ pc = "done"
    /\ \E i, j \in 1..Len(data) :
           /\ i < j
           /\ data[i].k = "celldm" /\ data[i].v[1] = 0
           /\ \A k \in 1..(i - 1) : data[k].k /= "celldm"
           /\ data[j].k = "celldm" /\ data[j].v[1] /= 0
    /\ alat = Num(1)

(***************************************************************************)
(* The step multiplies coordinates or the cell by the lattice scale        *)
(* factor: a site table builds the structure, a CELL_PARAMETERS block      *)
(* with the alat multiplier is applied, or an ATOMIC_POSITIONS block with  *)
(* the alat qualifier is applied to the structure.                         *)
(***************************************************************************)
UsesAlat ==
    \/ At_("site") /\ ~SiteSkip(pos_data) /\ atomic_data' /= atomic_data
    \/ /\ At_("cellp") /\ CellStop = 3 /\ pc' = "scan"
       /\ ~Contains(data[n].s, "bohr") /\ Contains(data[n].s, "alat")
    \/ /\ At_("atpos") /\ Truthy(atomic_data) /\ pc' = "scan"
       /\ CoordFlag(data[n].s) = "alat)"

(***************************************************************************)
(* C13: whenever the lattice scale factor multiplies the coordinates or    *)
(* the cell of the structure, it is non-zero, also when no celldm line     *)
(* came before.                                                            *)
(***************************************************************************)
C13_ScaleNeverZero == [][ UsesAlat => ~IsZero(alat) ]_vars

\* The descriptor tokens: split on whitespace, a single token re-split on "+".
XcTokens(d) ==
    LET t == SplitBlank(d) IN IF Len(t) = 1 THEN SplitKeep(t[1], "+") ELSE t

\* Lower-cased and stripped of quote and dash characters at both ends.
XcNorm(x) == Strip(Lower(x), { "-", "'", "\"" })

(***************************************************************************)
(* The (name, tags) pairs the normalization rule allows for descriptor d:  *)
(* with fewer than 4 tokens the normalized "+"-joined string is a table    *)
(* key (a hit gives the entry, a miss the string itself and no tags), with *)
(* 4 or more the "+"-joined normalized tokens are searched in the          *)
(* composite-setup lists (a hit gives a matching entry, a miss the joined  *)
(* string and no tags).                                                    *)
(***************************************************************************)
XcRule(d) ==
    LET t == XcTokens(d)
        one == XcNorm(Join(t, "+"))
        many == Join([i \in 1..Len(t) |-> XcNorm(t[i])], "+")
        byKey == { e \in xc_internal_map : e.key = one }
        bySetup == { e \in xc_internal_map : \E i \in 1..Len(e.setup) : e.setup[i] = many }
    IN  IF Len(t) < 4
        THEN IF byKey /= {} THEN { << e.name, e.type >> : e \in byKey }
             ELSE { << one, <<>> >> }
        ELSE IF bySetup /= {} THEN { << e.name, e.type >> : e \in bySetup }
             ELSE { << many, <<>> >> }

(***************************************************************************)
(* C14: a log whose only line is an exchange-correlation line with         *)
(* descriptor d never fails, and ends with a functional name and tags the  *)
(* normalization rule gives for d; for descriptor "PBE" that is the name   *)
(* "PBE" with the one tag GGA.                                             *)
(***************************************************************************)
C14_XcNormalization ==
    /\ \A d \in XcDescriptors :
           data = << XcLine(d) >> =>
               /\ pc /= "failed"
               /\ pc = "done" => << Val(info.H), info.H_types >> \in XcRule(d)
    /\ (pc = "done" /\ data = << XcLine("PBE") >>) =>
           (info.H = Some("PBE") /\ info.H_types = << "GGA" >>)

\* A finished scan of a four-token descriptor found in a composite-setup list.
C14_Witness ==
    /\ pc = "done"
    /\ data = << XcLine(" SLA  PW   GGX  GGC") >>
    /\ info.H = Some("PW91")
    /\ info.H_types = << "GGA" >>

\* The qualifier of a block header: the text between "(" and ")", "" when
\* the header has no parenthesis.
Qualifier(header) ==
    IF Contains(header, "(")
    THEN LET rest == Slice(header, Find(header, "(") + 1, Len(header))
         IN  Strip(SliceTo(rest, Find(rest, ")")), Blank)
    ELSE ""

\* The N lines after line n are position rows.
PosRowsFollow(N) ==
    \A i \in 1..N : n + i <= Len(data) /\ data[n + i].k = "posrow"

\* The raw coordinates of the N lines after line n.
RawRows(N) == [i \in 1..N |-> NumRow(data[n + i].v)]

(***************************************************************************)
(* C15: an ATOMIC_POSITIONS block met when a structure with N atoms        *)
(* exists, with N rows after its header, keeps the scan going, leaves the  *)
(* symbols and the cell alone and sets the N positions from the N rows:    *)
(* times the lattice scale factor for "alat", times Bohr for "bohr",       *)
(* unchanged for "angstrom", and as fractional coordinates of the          *)
(* structure's cell for any other or no qualifier.                         *)
(***************************************************************************)
C15_PositionsByQualifier ==
    [][ (At_("atpos") /\ Truthy(atomic_data)
            /\ PosRowsFollow(Len(Val(atomic_data).symbols))) =>
          LET a == Val(atomic_data)
              raw == RawRows(Len(a.symbols))
              q == Qualifier(data[n].s)
          IN  /\ pc' = "scan"
              /\ IsSome(atomic_data')
              /\ Val(atomic_data').symbols = a.symbols
              /\ Val(atomic_data').cell = a.cell
              /\ Val(atomic_data').positions =
                     IF q = "alat" THEN MScale(raw, alat)
                     ELSE IF q = "bohr" THEN MScale(raw, Bohr)
                     ELSE IF q = "angstrom" THEN raw
                     ELSE MatMul(raw, a.cell) ]_vars

\* A finished scan where fractional coordinates (1, 2, 0) were applied to
\* the cell a CELL_PARAMETERS block had set before.
C15_Witness ==
    /\ pc = "done"
    /\ data = OneAtomLog
                \o << L_cellp("(bohr)"), L_cellrow(1, 1, 0), L_cellrow(0, 1, 0),
                      L_cellrow(0, 0, 2) >>
                \o << L_atpos("(crystal)"), L_posrow("Fe", 1, 2, 0) >>
    /\ IsSome(atomic_data)
    /\ Val(atomic_data).positions = MScale(<< NumRow(<< 1, 3, 0 >>) >>, Bohr)

\* The 3 lines after line n are cell rows.
CellRowsFollow ==
    \A i \in 1..3 : n + i <= Len(data) /\ data[n + i].k = "cellrow"

\* The fractional coordinates of the atoms of a relative to its cell.
Fractional(a) == MatMul(a.positions, Inverse3(a.cell))

C17_StructureIffConstructed ==
    pc = "done" =>
        /\ Len(structures) <= 1
        /\ (Len(structures) = 1) <=> IsSome(atomic_data)
        /\ (\A i \in 1..Len(data) : data[i].k /= "site") => structures = <<>>

\* Two table entries share a composite-setup string.
ShareSetup(e1, e2) ==
    \E i \in 1..Len(e1.setup) : \E j \in 1..Len(e2.setup) : e1.setup[i] = e2.setup[j]

(***************************************************************************)
(* C18: table entries that share a composite-setup string have the same    *)
(* display name and the same category tags, so whichever matching entry    *)
(* the table's iteration order puts first, an exchange-correlation line    *)
(* has one possible functional name and one possible list of tags.         *)
(***************************************************************************)
C18_CompositeSearchDeterministic ==
    /\ \A e1, e2 \in xc_internal_map :
           ShareSetup(e1, e2) => (e1.name = e2.name /\ e1.type = e2.type)
    /\ At_("xc") => \A r1, r2 \in XcResults(data[n].s) : r1 = r2

\* A finished scan of a composite string that two aliased keys list.
C18_Witness ==
    /\ pc = "done"
    /\ data = << XcLine("sla+pw+gaup+pbc") >>
    /\ Cardinality(XcMatch("sla+pw+gaup+pbc")) = 2
    /\ info.H = Some("Gau-PBE")
    /\ info.H_types = << "GGA", "hybrid" >>

====
